---- MODULE Spec2Model ----
(***************************************************************************)
(* The sliding-window rate limiter of OCR-Chat-Extractor, in its two       *)
(* variants: backend/app.py (check_rate_limit, rate_limit_required,        *)
(* rate_limit_status) and api/index.py (check_rate_limit, rate_limit).     *)
(*                                                                         *)
(* Request handlers run as threads over the shared request_tracker.  One   *)
(* step of the model is one access of a handler to the shared map or to    *)
(* the clock (datetime.now()); what a handler keeps in local variables     *)
(* between two accesses is per-process state.                              *)
(*                                                                         *)
(* Time is counted in clock ticks, TicksPerSecond of them to a second      *)
(* (datetime counts microseconds).  A timedelta is a number of ticks; the  *)
(* float that total_seconds() returns is kept as that number of ticks, and *)
(* int() of it truncates toward zero to whole seconds.                     *)
(*                                                                         *)
(* Spec lets two handler threads interleave freely.  SeqSpec serves the    *)
(* requests one after the other and records, beside each step, the history *)
(* of the calls (pre, due, streak, lastRej) that the sequential properties *)
(* speak about.                                                            *)
(***************************************************************************)
EXTENDS Integers, Sequences, FiniteSets, TLC

\* ---- bounds of the model ----
MaxLimit == 2          \* RATE_LIMIT ranges over 1..MaxLimit (10 in the source)
WindowTicks == 2       \* length of RATE_LIMIT_WINDOW in ticks (one hour in the source)
TicksPerSecond == 2    \* clock resolution (10^6 in the source)
MaxClock == 4          \* the clock stops here
MaxCalls == 3          \* requests served in one run of concurrent handlers
MaxSeqCalls == 5       \* requests served in one run of a single handler

Procs == {1, 2}
SeqProcs == {1}
Clients == {"a", "b"}
Variants == {"backend", "api"}

VARIABLES
    variant,          \* which of the two programs runs
    limit,            \* the configured RATE_LIMIT
    clock,            \* what datetime.now() returns, in ticks
    request_tracker,  \* client_id -> list of request times
    pc,               \* where each handler stands
    op,               \* "admit" (a rate-limited route) or "status"
    client_id,        \* the handler's client_id
    now,              \* the handler's local `now`
    cleaned,          \* the list the comprehension built, not yet stored
    orphan,           \* the list object the handler holds is no longer the one in the map
    now2,             \* api/index.py: the decorator's second datetime.now()
    allowed,          \* what check_rate_limit returned (first component)
    value,            \* retry_after of a rejection; `used` of a status
    reset_in,         \* reset_in_seconds of a status
    started,          \* how many requests have come in
    pre,              \* history: the window as the call found it
    due,              \* history: the call comes exactly retry_after after a rejection
    streak,           \* history: calls in a row at one clock value, per client
    lastRej           \* history: the last call's rejection, per client

histVars == <<pre, due, streak, lastRej>>
vars == <<variant, limit, clock, request_tracker, pc, op, client_id, now,
          cleaned, orphan, now2, allowed, value, reset_in, started, pre, due, streak,
          lastRej>>

\* ---- configuration ----
RATE_LIMIT == limit
RATE_LIMIT_WINDOW == WindowTicks

\* ---- pure helpers ----
Range(w) == {w[i] : i \in 1..Len(w)}

\* min(list) of a non-empty list
Min(w) == CHOOSE m \in Range(w) : \A x \in Range(w) : m <= x

\* the newest entry of a non-empty list (used by the history only)
Max(w) == CHOOSE m \in Range(w) : \A x \in Range(w) : x <= m

\* a clean that keeps an entry exactly one window old
CleanOldMut(w, n) == SelectSeq(w, LAMBDA t : n - t <= RATE_LIMIT_WINDOW)
\* [t for t in w if n - t < RATE_LIMIT_WINDOW]
CleanOld(w, n) == SelectSeq(w, LAMBDA t : n - t < RATE_LIMIT_WINDOW)

\* a check that lets one request too many through
OverLimitMut(w) == Len(w) > RATE_LIMIT
\* len(list) >= RATE_LIMIT
OverLimit(w) == Len(w) >= RATE_LIMIT

\* a store into one list shared by all clients
StoreMut(tr, c, w) == [x \in Clients |-> w]
\* request_tracker[c] = w
Store(tr, c, w) == [tr EXCEPT ![c] = w]

\* int(timedelta.total_seconds()): whole seconds, truncated toward zero
IntSeconds(ticks) ==
    IF ticks >= 0 THEN ticks \div TicksPerSecond
    ELSE -((-ticks) \div TicksPerSecond)

\* max(0, x)
Max0(x) == IF x > 0 THEN x ELSE 0

\* a handler thread between two requests: none yet ("idle"), or the last one
\* answered ("done") or raised ("error"); its results stay readable until the
\* thread takes the next request
Resting == {"idle", "done", "error"}

\* the server hands a request to a free handler thread; the threads are alike, so
\* it is always the first free one
Free(p) == pc[p] \in Resting /\ \A q \in Procs : q < p => pc[q] \notin Resting

\* client ids are opaque keys; the first client ever seen is the one called "a"
Known(c) == started > 0 \/ c = "a"

\* ---- initial state ----
Init ==
    /\ variant \in Variants
    /\ limit \in 1..MaxLimit
    /\ clock = 0
    /\ request_tracker = [c \in Clients |-> <<>>]
    /\ pc = [p \in Procs |-> "idle"]
    /\ op = [p \in Procs |-> "none"]
    /\ client_id = [p \in Procs |-> "a"]
    /\ now = [p \in Procs |-> 0]
    /\ cleaned = [p \in Procs |-> <<>>]
    /\ orphan = [p \in Procs |-> FALSE]
    /\ now2 = [p \in Procs |-> 0]
    /\ allowed = [p \in Procs |-> FALSE]
    /\ value = [p \in Procs |-> 0]
    /\ reset_in = [p \in Procs |-> 0]
    /\ started = 0
    /\ pre = [p \in Procs |-> "none"]
    /\ due = [p \in Procs |-> FALSE]
    /\ streak = [c \in Clients |-> [t |-> 0, n |-> 0, kind |-> "none"]]
    /\ lastRej = [c \in Clients |-> [on |-> FALSE, at |-> 0, retry |-> 0]]

\* ---- the clock ----
Tick ==
    /\ clock < MaxClock
    /\ clock' = clock + 1
    /\ UNCHANGED <<orphan, started, variant, limit, request_tracker, pc, op, client_id, now,
                   cleaned, now2, allowed, value, reset_in>>

\* ---- check_rate_limit ----
\* the decorator takes client_id and calls check_rate_limit: now = datetime.now()
StartAdmit(p, c) ==
    /\ Free(p)
    /\ Known(c)
    /\ started' = started + 1
    /\ pc' = [pc EXCEPT ![p] = "clean"]
    /\ op' = [op EXCEPT ![p] = "admit"]
    /\ client_id' = [client_id EXCEPT ![p] = c]
    /\ now' = [now EXCEPT ![p] = clock]
    /\ now2' = [now2 EXCEPT ![p] = 0]
    /\ allowed' = [allowed EXCEPT ![p] = FALSE]
    /\ value' = [value EXCEPT ![p] = 0]
    /\ reset_in' = [reset_in EXCEPT ![p] = 0]
    /\ UNCHANGED <<orphan, variant, limit, clock, request_tracker, cleaned>>

\* the comprehension reads request_tracker[client_id] and builds the new list
CleanRead(p) ==
    /\ pc[p] = "clean"
    /\ cleaned' = [cleaned EXCEPT ![p] = CleanOld(request_tracker[client_id[p]], now[p])]
    /\ pc' = [pc EXCEPT ![p] = "store"]
    /\ UNCHANGED <<orphan, started, variant, limit, clock, request_tracker, op, client_id, now,
                   now2, allowed, value, reset_in>>

\* request_tracker[client_id] = <the new list>: a new list object takes the place
\* of the old one, which a handler about to call append on it may still hold
CleanStore(p) ==
    /\ pc[p] = "store"
    /\ request_tracker' = Store(request_tracker, client_id[p], cleaned[p])
    /\ orphan' = [q \in Procs |->
                    IF pc[q] = "append_call" /\ client_id[q] = client_id[p]
                    THEN TRUE ELSE orphan[q]]
    /\ cleaned' = [cleaned EXCEPT ![p] = <<>>]
    /\ pc' = [pc EXCEPT ![p] = IF op[p] = "admit" THEN "check" ELSE "used"]
    /\ UNCHANGED <<started, variant, limit, clock, op, client_id, now, now2, allowed,
                   value, reset_in>>

\* if len(request_tracker[client_id]) >= RATE_LIMIT
CheckLimit(p) ==
    /\ pc[p] = "check"
    /\ IF OverLimit(request_tracker[client_id[p]])
       THEN pc' = [pc EXCEPT ![p] = IF variant = "backend" THEN "oldest" ELSE "api_now"]
       ELSE pc' = [pc EXCEPT ![p] = "append"]
    /\ UNCHANGED <<orphan, started, variant, limit, clock, request_tracker, op, client_id, now,
                   cleaned, now2, allowed, value, reset_in>>

\* backend: oldest_request = min(request_tracker[client_id]); return False, time_until_reset
BackendOldest(p) ==
    /\ pc[p] = "oldest"
    /\ IF request_tracker[client_id[p]] = <<>>
       THEN /\ pc' = [pc EXCEPT ![p] = "error"]      \* ValueError: min() of an empty list
            /\ UNCHANGED <<allowed, value>>
       ELSE /\ pc' = [pc EXCEPT ![p] = "done"]
            /\ allowed' = [allowed EXCEPT ![p] = FALSE]
            /\ value' = [value EXCEPT ![p] =
                   Min(request_tracker[client_id[p]]) + RATE_LIMIT_WINDOW - now[p]]
    /\ UNCHANGED <<orphan, started, variant, limit, clock, request_tracker, op, client_id, now,
                   cleaned, now2, reset_in>>

\* request_tracker[client_id].append: the list object is taken from the map
AppendLoad(p) ==
    /\ pc[p] = "append"
    /\ pc' = [pc EXCEPT ![p] = "append_call"]
    /\ UNCHANGED <<orphan, started, variant, limit, clock, request_tracker, op,
                   client_id, now, cleaned, now2, allowed, value, reset_in>>

\* .append(now) on the list object taken; return True.  The append shows in the
\* map unless the map holds another list object by now.
AppendNow(p) ==
    /\ pc[p] = "append_call"
    /\ request_tracker' =
          IF orphan[p] THEN request_tracker
          ELSE [request_tracker EXCEPT ![client_id[p]] = Append(@, now[p])]
    /\ orphan' = [orphan EXCEPT ![p] = FALSE]
    /\ allowed' = [allowed EXCEPT ![p] = TRUE]
    /\ pc' = [pc EXCEPT ![p] = "done"]
    /\ UNCHANGED <<started, variant, limit, clock, op, client_id, now, cleaned, now2,
                   value, reset_in>>

\* api: check_rate_limit returned False; the decorator reads datetime.now() again
ApiNow(p) ==
    /\ pc[p] = "api_now"
    /\ now2' = [now2 EXCEPT ![p] = clock]
    /\ pc' = [pc EXCEPT ![p] = "api_first"]
    /\ UNCHANGED <<orphan, started, variant, limit, clock, request_tracker, op, client_id, now,
                   cleaned, allowed, value, reset_in>>

\* api: RATE_LIMIT_WINDOW - (now2 - request_tracker[client_id][0]); int(total_seconds())
ApiFirst(p) ==
    /\ pc[p] = "api_first"
    /\ IF request_tracker[client_id[p]] = <<>>
       THEN /\ pc' = [pc EXCEPT ![p] = "error"]      \* IndexError: list index out of range
            /\ UNCHANGED <<allowed, value>>
       ELSE /\ pc' = [pc EXCEPT ![p] = "done"]
            /\ allowed' = [allowed EXCEPT ![p] = FALSE]
            /\ value' = [value EXCEPT ![p] =
                   IntSeconds(RATE_LIMIT_WINDOW
                              - (now2[p] - Head(request_tracker[client_id[p]])))]
    /\ UNCHANGED <<orphan, started, variant, limit, clock, request_tracker, op, client_id, now,
                   cleaned, now2, reset_in>>

\* ---- rate_limit_status (backend only) ----
StartStatus(p, c) ==
    /\ variant = "backend"
    /\ Free(p)
    /\ Known(c)
    /\ started' = started + 1
    /\ pc' = [pc EXCEPT ![p] = "clean"]
    /\ op' = [op EXCEPT ![p] = "status"]
    /\ client_id' = [client_id EXCEPT ![p] = c]
    /\ now' = [now EXCEPT ![p] = clock]
    /\ now2' = [now2 EXCEPT ![p] = 0]
    /\ allowed' = [allowed EXCEPT ![p] = FALSE]
    /\ value' = [value EXCEPT ![p] = 0]
    /\ reset_in' = [reset_in EXCEPT ![p] = 0]
    /\ UNCHANGED <<orphan, variant, limit, clock, request_tracker, cleaned>>

\* used = len(request_tracker[client_id])
StatusUsed(p) ==
    /\ pc[p] = "used"
    /\ value' = [value EXCEPT ![p] = Len(request_tracker[client_id[p]])]
    /\ pc' = [pc EXCEPT ![p] = "reset_if"]
    /\ UNCHANGED <<orphan, started, variant, limit, clock, request_tracker, op, client_id, now,
                   cleaned, now2, allowed, reset_in>>

\* if request_tracker[client_id]: ... else: seconds_until_reset = 0
StatusIf(p) ==
    /\ pc[p] = "reset_if"
    /\ IF request_tracker[client_id[p]] # <<>>
       THEN /\ pc' = [pc EXCEPT ![p] = "reset_min"]
            /\ UNCHANGED reset_in
       ELSE /\ pc' = [pc EXCEPT ![p] = "done"]
            /\ reset_in' = [reset_in EXCEPT ![p] = Max0(IntSeconds(0))]
    /\ UNCHANGED <<orphan, started, variant, limit, clock, request_tracker, op, client_id, now,
                   cleaned, now2, allowed, value>>

\* oldest_request = min(request_tracker[client_id]); max(0, int(seconds_until_reset))
StatusMin(p) ==
    /\ pc[p] = "reset_min"
    /\ IF request_tracker[client_id[p]] = <<>>
       THEN /\ pc' = [pc EXCEPT ![p] = "error"]      \* ValueError: min() of an empty list
            /\ UNCHANGED reset_in
       ELSE /\ pc' = [pc EXCEPT ![p] = "done"]
            /\ reset_in' = [reset_in EXCEPT ![p] =
                   Max0(IntSeconds(Min(request_tracker[client_id[p]])
                                   + RATE_LIMIT_WINDOW - now[p]))]
    /\ UNCHANGED <<orphan, started, variant, limit, clock, request_tracker, op, client_id, now,
                   cleaned, now2, allowed, value>>

\* ---- concurrent handlers: any interleaving of the steps ----
Next ==
    \/ Tick /\ UNCHANGED histVars
    \/ \E p \in Procs, c \in Clients : started < MaxCalls /\ StartAdmit(p, c) /\ UNCHANGED histVars
    \/ \E p \in Procs, c \in Clients : started < MaxCalls /\ StartStatus(p, c) /\ UNCHANGED histVars
    \/ \E p \in Procs : CleanRead(p) /\ UNCHANGED histVars
    \/ \E p \in Procs : CleanStore(p) /\ UNCHANGED histVars
    \/ \E p \in Procs : CheckLimit(p) /\ UNCHANGED histVars
    \/ \E p \in Procs : BackendOldest(p) /\ UNCHANGED histVars
    \/ \E p \in Procs : AppendLoad(p) /\ UNCHANGED histVars
    \/ \E p \in Procs : AppendNow(p) /\ UNCHANGED histVars
    \/ \E p \in Procs : ApiNow(p) /\ UNCHANGED histVars
    \/ \E p \in Procs : ApiFirst(p) /\ UNCHANGED histVars
    \/ \E p \in Procs : StatusUsed(p) /\ UNCHANGED histVars
    \/ \E p \in Procs : StatusIf(p) /\ UNCHANGED histVars
    \/ \E p \in Procs : StatusMin(p) /\ UNCHANGED histVars

Spec == Init /\ [][Next]_vars

\* ---- one handler at a time: requests served one after the other ----
\* What the window looked like to a call starting at time n: empty, or full with
\* its newest entry exactly one window old (the quota was exhausted at n - window).
PreKind(w, n) ==
    IF w = <<>> THEN "empty"
    ELSE IF Len(w) = RATE_LIMIT /\ n - Max(w) = RATE_LIMIT_WINDOW THEN "expired"
    ELSE "other"

\* the returned retry_after as a time span: api returns whole seconds, backend the
\* float seconds kept in ticks
RetryTicks(r) == IF variant = "api" THEN r * TicksPerSecond ELSE r

NoRej == [on |-> FALSE, at |-> 0, retry |-> 0]

\* History of the calls of handler p, recorded beside its step.
History(p) ==
    LET c == client_id'[p]
        starting == pc[p] \in Resting
        finishing == pc'[p] = "done"
    IN /\ pre' = [pre EXCEPT ![p] =
                    IF starting THEN PreKind(request_tracker[c], now'[p]) ELSE @]
       /\ due' = [due EXCEPT ![p] =
                    IF starting
                    THEN /\ op'[p] = "admit"
                         /\ lastRej[c].on
                         /\ now'[p] = lastRej[c].at + RetryTicks(lastRej[c].retry)
                    ELSE @]
       /\ streak' =
            IF finishing /\ op[p] = "admit"
            THEN [streak EXCEPT ![c] =
                    IF @.kind # "none" /\ @.t = now[p]
                    THEN [@ EXCEPT !.n = IF @ < MaxLimit + 2 THEN @ + 1 ELSE @]
                    ELSE [t |-> now[p], n |-> 1, kind |-> pre[p]]]
            ELSE streak
       /\ lastRej' =
            IF finishing
            THEN [lastRej EXCEPT ![c] =
                    IF op[p] = "admit" /\ ~allowed'[p]
                    THEN [on |-> TRUE,
                          at |-> IF variant = "api" THEN now2[p] ELSE now[p],
                          retry |-> value'[p]]
                    ELSE NoRej]
            ELSE lastRej

SeqNext ==
    \/ Tick /\ UNCHANGED histVars
    \/ \E p \in SeqProcs, c \in Clients : started < MaxSeqCalls /\ StartAdmit(p, c) /\ History(p)
    \/ \E p \in SeqProcs, c \in Clients : started < MaxSeqCalls /\ StartStatus(p, c) /\ History(p)
    \/ \E p \in SeqProcs : CleanRead(p) /\ History(p)
    \/ \E p \in SeqProcs : CleanStore(p) /\ History(p)
    \/ \E p \in SeqProcs : CheckLimit(p) /\ History(p)
    \/ \E p \in SeqProcs : BackendOldest(p) /\ History(p)
    \/ \E p \in SeqProcs : AppendLoad(p) /\ History(p)
    \/ \E p \in SeqProcs : AppendNow(p) /\ History(p)
    \/ \E p \in SeqProcs : ApiNow(p) /\ History(p)
    \/ \E p \in SeqProcs : ApiFirst(p) /\ History(p)
    \/ \E p \in SeqProcs : StatusUsed(p) /\ History(p)
    \/ \E p \in SeqProcs : StatusIf(p) /\ History(p)
    \/ \E p \in SeqProcs : StatusMin(p) /\ History(p)

SeqSpec == Init /\ [][SeqNext]_vars

\* ---- claims ----
Sorted(w) == \A i, j \in 1..Len(w) : i < j => w[i] <= w[j]

\* the entries of w that are not expired now
Live(w) == SelectSeq(w, LAMBDA t : clock - t < RATE_LIMIT_WINDOW)

Admitting(p) == pc[p] \in {"append", "append_call"}

Rejecting(p) == pc[p] \in {"oldest", "api_now", "api_first"}

Answered(p, o) == pc[p] = "done" /\ op[p] = o

\* C1: two admissions for one client never both stand past the check, about to
\* append, while the window has exactly one slot left: of two concurrent
\* admissions for the last slot at most one is admitted.
Claim_C1_OneSlotOneAdmission ==
    \A p, q \in Procs :
        (p # q /\ Admitting(p) /\ Admitting(q) /\ client_id[p] = client_id[q])
            => Len(request_tracker[client_id[p]]) # RATE_LIMIT - 1

\* C2: with the clock held fixed and starting from an empty window, the calls
\* 1..RATE_LIMIT of a client are admitted and call RATE_LIMIT + 1 is rejected.
Thm_C2_FixedClockQuota ==
    \A p \in Procs :
        LET k == streak[client_id[p]] IN
        (Answered(p, "admit") /\ k.kind = "empty" /\ k.t = now[p])
            => /\ k.n <= RATE_LIMIT => allowed[p]
               /\ k.n = RATE_LIMIT + 1 => ~allowed[p]

\* C2 witness: call RATE_LIMIT + 1 of such a run has been rejected, RATE_LIMIT > 1.
Wit_C2_CallAfterQuotaRejected ==
    \E p \in Procs :
        /\ Answered(p, "admit") /\ ~allowed[p]
        /\ RATE_LIMIT = MaxLimit
        /\ streak[client_id[p]].kind = "empty"
        /\ streak[client_id[p]].t = now[p]
        /\ streak[client_id[p]].n = RATE_LIMIT + 1

\* C3: every client's window holds at most RATE_LIMIT timestamps.
Claim_C3_WindowAtMostLimit ==
    \A c \in Clients : Len(request_tracker[c]) <= RATE_LIMIT

\* C4: a call made exactly one window after the quota was exhausted finds every
\* counted request expired: it and the calls after it at that time, RATE_LIMIT in
\* all, are admitted; a status made at that time reports used = 0; and no entry
\* as old as the window survives a clean, in admit or in status.
Thm_C4_BoundaryExpires ==
    \A p \in Procs :
        LET k == streak[client_id[p]] IN
        /\ (Answered(p, "admit") /\ k.kind = "expired" /\ k.t = now[p] /\ k.n <= RATE_LIMIT)
              => allowed[p]
        /\ (Answered(p, "status") /\ pre[p] = "expired") => value[p] = 0
        /\ (pc[p] \in {"check", "used"})
              => \A i \in 1..Len(request_tracker[client_id[p]]) :
                    now[p] - request_tracker[client_id[p]][i] < RATE_LIMIT_WINDOW

\* C4 witness: the last of the RATE_LIMIT calls made exactly one window after the
\* quota ran out has been admitted, RATE_LIMIT > 1.
Wit_C4_AdmittedAgainAtBoundary ==
    \E p \in Procs :
        /\ Answered(p, "admit") /\ allowed[p]
        /\ RATE_LIMIT = MaxLimit
        /\ streak[client_id[p]].kind = "expired"
        /\ streak[client_id[p]].t = now[p]
        /\ streak[client_id[p]].n = RATE_LIMIT

\* C5: a step of a status call leaves the unexpired entries of every window as
\* they are, so no later admission is decided differently.
Claim_C5_StatusKeepsLiveEntries ==
    [][\A p \in Procs :
          (op'[p] = "status" /\ pc'[p] # pc[p])
              => \A c \in Clients : Live(request_tracker'[c]) = Live(request_tracker[c])]_vars

\* C6: the retry_after returned with a rejection is never negative.
Claim_C6_RetryAfterNotNegative ==
    \A p \in Procs : (Answered(p, "admit") /\ ~allowed[p]) => value[p] >= 0

\* C7: an admit call made exactly retry_after after a rejection, with no other
\* request of that client in between, is admitted.
Claim_C7_AdmittedAfterRetryAfter ==
    \A p \in Procs : (Answered(p, "admit") /\ due[p]) => allowed[p]

\* C8: a step of a request of one client leaves the window of every other client
\* unchanged (and so does the passing of time).
Thm_C8_OtherWindowsUnchanged ==
    [][/\ pc' = pc => request_tracker' = request_tracker
       /\ \A p \in Procs : \A c \in Clients :
             (pc'[p] # pc[p] /\ c # client_id'[p])
                 => request_tracker'[c] = request_tracker[c]]_vars

\* C8 witness: client "a" has been rejected (its quota is used up) and client "b"
\* has been admitted at the same or a later time.
Wit_C8_OneRejectedOtherAdmitted ==
    \E p, q \in Procs :
        /\ Answered(p, "admit") /\ client_id[p] = "a" /\ ~allowed[p]
        /\ Answered(q, "admit") /\ client_id[q] = "b" /\ allowed[q]
        /\ now[q] >= now[p]
        /\ Len(request_tracker["a"]) >= RATE_LIMIT

\* C9: every window is in chronological order, so its first element is its minimum.
Claim_C9_WindowChronological ==
    \A c \in Clients : Sorted(request_tracker[c])

\* C10: while an admit that decided to reject has still to read the oldest
\* timestamp, the window of its client is not empty.
Claim_C10_RejectionFindsWindow ==
    \A p \in Procs : Rejecting(p) => request_tracker[client_id[p]] # <<>>
====
